---- MODULE Spec2Model ----
(***************************************************************************)
(* Request handlers of src/main.py (businesses and reviews REST API) over  *)
(* the two relational tables created by create_table.                      *)
(*                                                                         *)
(* A request runs on one pooled connection.  Every SQL statement is one    *)
(* step.  A statement that writes takes effect on the tables at the        *)
(* conn.commit() that follows it; a transaction that issues one writing    *)
(* statement and commits is therefore one step, and delete_business, which *)
(* issues two, chooses the review rows of its first DELETE when that       *)
(* statement runs and removes them when it commits.  A handler that leaves *)
(* the `with` block through an exception never commits and is answered 500.*)
(*                                                                         *)
(* The constraints of create_table are taken as enforced by the store: a   *)
(* stars value outside 0..5 makes the INSERT or UPDATE raise.  Field       *)
(* values are abstract tokens that fit their columns; hyperlinks (`self`,  *)
(* `business`, `next`) are modelled by the values they are built from.     *)
(* The per-owner and per-user listings read the tables only and are left   *)
(* out.                                                                    *)
(***************************************************************************)
EXTENDS Integers, Sequences, FiniteSets, TLC

\* ---------------------------------------------------------------- bounds
MaxBusinessId == 2      \* ids the businesses SERIAL column hands out
MaxReviewId == 2        \* ids the reviews SERIAL column hands out
MaxOffset == 2          \* largest ?offset= a client sends
MaxLimit == 2           \* largest ?limit= a client sends
NumConns == 2           \* connections the pool of SpecConc holds

Conns == 1..NumConns
BusinessIds == 1..MaxBusinessId
ReviewIds == 1..MaxReviewId

\* ------------------------------------------------------- program constants
ERROR_MISSING_ATTRIBUTES ==
    [Error |-> "The request body is missing at least one of the required attributes"]
ERROR_BUSINESS_NOT_FOUND ==
    [Error |-> "No business with this business_id exists"]
ERROR_REVIEW_CONFLICT ==
    [Error |-> "You have already submitted a review for this business"]
ERROR_REVIEW_NOT_FOUND ==
    [Error |-> "No review with this review_id exists"]
\* what Flask answers when a handler raises (KeyError, a failed CHECK, ...)
INTERNAL_SERVER_ERROR == [Error |-> "Internal Server Error"]

\* the six columns post_business and put_business read from the body
BusinessKeys == {"owner_id", "name", "street_address", "city", "state", "zip_code"}
\* the columns post_review reads from the body
ReviewKeys == {"user_id", "business_id", "stars", "review_text"}

\* ------------------------------------------------------------ input sets
KeyIndex(k) ==
    CASE k = "owner_id" -> 1 [] k = "name" -> 2 [] k = "street_address" -> 3
      [] k = "city" -> 4 [] k = "state" -> 5 [] k = "zip_code" -> 6
      [] OTHER -> 7
\* a value for key k, different for every key and for every variant v
Token(k, v) == 10 * KeyIndex(k) + v
Variants == {1, 2}
\* the JSON bodies sent to /businesses: the six keys (two variants), one of
\* the six missing, one key too many, and six keys that are not the six
BusinessKeySets ==
    {BusinessKeys \cup {"phone"}}
      \cup {BusinessKeys \ {k} : k \in {"owner_id", "zip_code"}}
      \cup {(BusinessKeys \ {k}) \cup {"phone"} : k \in {"owner_id", "zip_code"}}
BusinessBodies ==
    {[k \in BusinessKeys |-> Token(k, v)] : v \in Variants}
      \cup {[k \in K |-> Token(k, 1)] : K \in BusinessKeySets}

Users == {1, 2}
Stars == {-1, 0, 5, 6}
Texts == {"a"}
Restrict(f, K) == [k \in K |-> f[k]]
\* the JSON bodies sent to /reviews by the given users with the given stars:
\* the three required keys with and without review_text, and bodies with one
\* required key missing
ReviewBodiesOf(users, stars) ==
    LET full == [user_id : users, business_id : BusinessIds, stars : stars,
                 review_text : Texts]
        one == CHOOSE r \in full : TRUE
    IN {Restrict(r, K) : r \in full, K \in {ReviewKeys, ReviewKeys \ {"review_text"}}}
         \cup {Restrict(one, ReviewKeys \ {k}) : k \in ReviewKeys \ {"review_text"}}
\* query strings of GET /businesses: offset and limit each given or omitted
ListArgs ==
    {Restrict(r, K) :
        r \in [offset : 0..MaxOffset, limit : 0..MaxLimit],
        K \in SUBSET {"offset", "limit"}}

\* an empty JSON object, and the empty body of a 204
NoContent == [k \in {} |-> 0]

\* ------------------------------------------------------------------ state
VARIABLES
    businesses,      \* table businesses: id -> row of the six columns
    reviews,         \* table reviews: id -> [user_id, business_id, stars, review_text]
    nextBusinessId,  \* next value of businesses.id (SERIAL)
    nextReviewId,    \* next value of reviews.id (SERIAL)
    pool,            \* connections of the pool `db`
    pc,              \* per connection: the statement its handler runs next
    req,             \* per connection: the request being (or last) handled
    resp,            \* per connection: the response last returned
    row_dict,        \* put_review: the row its SELECT fetched
    row1,            \* delete_business: ids of the review rows its first DELETE
                     \* took (kept until the connection's next delete_business)
    checkedout,      \* connections of the pool that are checked out
    walk             \* the client's walk along the next links of GET
                     \* /businesses: the link to follow and the ids listed so far

tables == <<businesses, reviews, nextBusinessId, nextReviewId>>
locals == <<row_dict, row1>>
vars == <<businesses, reviews, nextBusinessId, nextReviewId, pool, pc, req, resp,
          row_dict, row1, checkedout, walk>>

Request(op, id, content) == [op |-> op, id |-> id, content |-> content]
Response(status, body) == [status |-> status, body |-> body]
NoRequest == Request("none", 0, NoContent)
NoResponse == Response(0, NoContent)
NoRow == [id |-> 0]
\* no walk along next links is under way
NoWalk == [requests |-> 0]

\* content.get(key), None when the key is absent
Has(content, key) == key \in DOMAIN content

\* `with db.connect() as conn:` checks connection c out of the pool
Connect(out, c) == out \cup {c}
\* mutant: leaving the `with` block does not give the connection back
CloseKeeps(out, c) == out
\* leaving the `with` block, by return or by exception, closes conn: the
\* connection goes back to the pool
Close(out, c) == out \ {c}

\* the handler returns (status, body) before it reaches `with db.connect()`
Refuse(c, status, body) ==
    /\ pc' = [pc EXCEPT ![c] = "idle"]
    /\ resp' = [resp EXCEPT ![c] = Response(status, body)]
    /\ UNCHANGED checkedout
    /\ walk' = NoWalk
\* the handler on connection c returns (status, body), or a statement raises
\* and Flask answers (status, body); either way its `with` block ends
Return(c, status, body) ==
    /\ pc' = [pc EXCEPT ![c] = "idle"]
    /\ resp' = [resp EXCEPT ![c] = Response(status, body)]
    /\ checkedout' = Close(Connect(checkedout, c), c)
    /\ walk' = NoWalk
\* the handler on connection c goes on to statement `label` inside its `with`
\* block; it has not answered yet
Goto(c, label) ==
    /\ pc' = [pc EXCEPT ![c] = label]
    /\ resp' = [resp EXCEPT ![c] = NoResponse]
    /\ checkedout' = Connect(checkedout, c)
    /\ walk' = NoWalk
\* a request arrives and is routed to its handler
Accept(c, op, id, content) ==
    /\ c \in pool
    /\ pc[c] = "idle"
    /\ req' = [req EXCEPT ![c] = Request(op, id, content)]

\* --------------------------------------------------------------- businesses
\* len(content) != 6
LenIsNotSix(content) == Cardinality(DOMAIN content) # 6

\* mutant: city and state bound to each other's parameter
BusinessRowSwapped(content) ==
    [owner_id |-> content["owner_id"], name |-> content["name"],
     street_address |-> content["street_address"], city |-> content["state"],
     state |-> content["city"], zip_code |-> content["zip_code"]]
\* the row INSERT INTO businesses(...) VALUES (...) stores
BusinessRow(content) ==
    [owner_id |-> content["owner_id"], name |-> content["name"],
     street_address |-> content["street_address"], city |-> content["city"],
     state |-> content["state"], zip_code |-> content["zip_code"]]

\* the JSON object a business is returned as, from a row or from the body
BusinessObject(id, fields) ==
    [id |-> id, owner_id |-> fields["owner_id"], name |-> fields["name"],
     street_address |-> fields["street_address"], city |-> fields["city"],
     state |-> fields["state"], zip_code |-> fields["zip_code"]]

\* SELECT * FROM businesses WHERE id=:business_id ... one_or_none() is None
BusinessIsNone(tbl, business_id) == business_id \notin DOMAIN tbl

\* mutant: the DELETE is not committed
WithoutCommit(tbl, ids) == tbl
\* table tbl with row id removed / added / replaced
Without(tbl, ids) == [i \in DOMAIN tbl \ ids |-> tbl[i]]
With(tbl, id, row) == [i \in DOMAIN tbl \cup {id} |-> IF i = id THEN row ELSE tbl[i]]

post_business(c, content) ==
    /\ Accept(c, "post_business", 0, content)
    /\ IF LenIsNotSix(content)
         THEN /\ Refuse(c, 400, ERROR_MISSING_ATTRIBUTES)
              /\ UNCHANGED tables
         ELSE IF ~(BusinessKeys \subseteq DOMAIN content)
         THEN \* content['owner_id'] ... raises KeyError
              /\ Return(c, 500, INTERNAL_SERVER_ERROR)
              /\ UNCHANGED tables
         ELSE /\ nextBusinessId <= MaxBusinessId
              /\ businesses' = With(businesses, nextBusinessId, BusinessRow(content))
              /\ nextBusinessId' = nextBusinessId + 1
              /\ Return(c, 201, BusinessObject(nextBusinessId, content))
              /\ UNCHANGED <<reviews, nextReviewId>>
    /\ UNCHANGED <<pool, locals>>

get_business(c, business_id) ==
    /\ Accept(c, "get_business", business_id, NoContent)
    /\ IF BusinessIsNone(businesses, business_id)
         THEN Return(c, 404, ERROR_BUSINESS_NOT_FOUND)
         ELSE Return(c, 200, BusinessObject(business_id, businesses[business_id]))
    /\ UNCHANGED <<tables, pool, locals>>

\* ORDER BY id: the ids of ids in ascending order
RECURSIVE OrderById(_)
OrderById(ids) ==
    IF ids = {} THEN <<>>
    ELSE LET least == CHOOSE i \in ids : \A j \in ids : i <= j
         IN <<least>> \o OrderById(ids \ {least})

\* mutant: :limit and :offset bound to each other's value
LimitOffsetSwapped(rows, limit, offset) ==
    SubSeq(rows, limit + 1,
           IF limit + offset < Len(rows) THEN limit + offset ELSE Len(rows))
\* LIMIT :limit OFFSET :offset of the ordered rows
LimitOffset(rows, limit, offset) ==
    SubSeq(rows, offset + 1,
           IF offset + limit < Len(rows) THEN offset + limit ELSE Len(rows))

\* request.args.get(name, default=..., type=int)
ArgsGet(args, name, default) == IF Has(args, name) THEN args[name] ELSE default

\* mutant: the next link starts one row too far
NextOffsetSkips(offset, limit) == offset + limit + 1
\* next_offset = offset + limit
NextOffset(offset, limit) == offset + limit

\* the client's walk after the page `rows` was returned with the link `next`
\* to a request for (offset, limit): a request for offset 0 and a limit of at
\* least 1 starts a walk, a request for the link of the walk's last page
\* continues it unless that page was empty, any other request is not part of
\* a walk
Walked(w, offset, limit, rows, next) ==
    IF offset = 0 /\ limit >= 1
      THEN [requests |-> 1, seen |-> rows, offset |-> offset, next |-> next,
            done |-> rows = <<>>]
    ELSE IF w # NoWalk /\ ~w.done /\ w.next = [offset |-> offset, limit |-> limit]
      THEN [requests |-> w.requests + 1, seen |-> w.seen \o rows,
            offset |-> offset, next |-> next, done |-> rows = <<>>]
    ELSE NoWalk

get_businesses(c, args) ==
    /\ Accept(c, "get_businesses", 0, args)
    /\ LET offset == ArgsGet(args, "offset", 0)
           limit == ArgsGet(args, "limit", 3)
           rows == LimitOffset(OrderById(DOMAIN businesses), limit, offset)
           entries == [i \in 1..Len(rows) |-> BusinessObject(rows[i], businesses[rows[i]])]
           next == [offset |-> NextOffset(offset, limit), limit |-> limit]
       IN /\ pc' = [pc EXCEPT ![c] = "idle"]
          /\ resp' = [resp EXCEPT ![c] =
                         Response(200, [entries |-> entries, next |-> next])]
          /\ checkedout' = Close(Connect(checkedout, c), c)
          /\ walk' = Walked(walk, offset, limit, rows, next)
    /\ UNCHANGED <<tables, pool, locals>>

\* the client requests the next link of the page it was last returned
follow_next(c) ==
    /\ walk # NoWalk
    /\ ~walk.done
    /\ get_businesses(c, walk.next)

\* put_business up to its SELECT
put_business(c, business_id, content) ==
    /\ Accept(c, "put_business", business_id, content)
    /\ IF LenIsNotSix(content)
         THEN Refuse(c, 400, ERROR_MISSING_ATTRIBUTES)
         ELSE IF BusinessIsNone(businesses, business_id)
         THEN Return(c, 404, ERROR_BUSINESS_NOT_FOUND)
         ELSE Goto(c, "put_business_update")
    /\ UNCHANGED <<tables, pool, locals>>

\* UPDATE businesses SET ... WHERE id = :business_id
UpdateBusiness(tbl, business_id, content) ==
    IF business_id \in DOMAIN tbl
      THEN With(tbl, business_id, BusinessRow(content))
      ELSE tbl

\* put_business: its UPDATE, commit and return
put_business_update(c) ==
    /\ pc[c] = "put_business_update"
    /\ IF ~(BusinessKeys \subseteq DOMAIN req[c].content)
         THEN \* content['name'] ... raises KeyError
              /\ Return(c, 500, INTERNAL_SERVER_ERROR)
              /\ UNCHANGED businesses
         ELSE /\ businesses' = UpdateBusiness(businesses, req[c].id, req[c].content)
              /\ Return(c, 200, BusinessObject(req[c].id, req[c].content))
    /\ UNCHANGED <<reviews, nextBusinessId, nextReviewId, pool, req, locals>>

\* mutant: the DELETE compares the wrong column
ReviewsOfBusinessByUser(tbl, business_id) ==
    {r \in DOMAIN tbl : tbl[r].user_id = business_id}
\* the rows DELETE FROM reviews WHERE business_id=:business_id takes
ReviewsOfBusiness(tbl, business_id) ==
    {r \in DOMAIN tbl : tbl[r].business_id = business_id}

\* delete_business: its first DELETE
delete_business(c, business_id) ==
    /\ Accept(c, "delete_business", business_id, NoContent)
    /\ row1' = [row1 EXCEPT ![c] = ReviewsOfBusiness(reviews, business_id)]
    /\ Goto(c, "delete_business_stmt2")
    /\ UNCHANGED <<tables, pool, row_dict>>

\* mutant: the rowcount is taken to be 1 whatever the DELETE removed
BusinessRowcountOne(tbl, business_id) == 1
\* result.rowcount of DELETE FROM businesses WHERE id=:business_id
BusinessRowcount(tbl, business_id) == IF business_id \in DOMAIN tbl THEN 1 ELSE 0

\* delete_business: its second DELETE, commit and return
delete_business_stmt2(c) ==
    /\ pc[c] = "delete_business_stmt2"
    /\ reviews' = Without(reviews, row1[c])
    /\ businesses' = Without(businesses, {req[c].id})
    /\ IF BusinessRowcount(businesses, req[c].id) = 1
         THEN Return(c, 204, NoContent)
         ELSE Return(c, 404, ERROR_BUSINESS_NOT_FOUND)
    /\ UNCHANGED <<nextBusinessId, nextReviewId, pool, req, locals>>


\* ------------------------------------------------------------------ reviews
\* the JSON bodies sent to PUT /reviews/<id>: stars and review_text, each
\* given or omitted
PutReviewBodies ==
    {Restrict(r, K) :
        r \in [stars : Stars, review_text : Texts],
        K \in SUBSET {"stars", "review_text"}}

\* content.get('user_id') is None or content.get('business_id') is None
\* or content.get('stars') is None
PostReviewMissing(content) ==
    ~Has(content, "user_id") \/ ~Has(content, "business_id") \/ ~Has(content, "stars")

\* mutant: the SELECT leaves out AND user_id = :user_id
ReviewsOfPairAnyUser(tbl, business_id, user_id) ==
    {r \in DOMAIN tbl : tbl[r].business_id = business_id}
\* SELECT business_id, user_id FROM reviews
\*   WHERE business_id = :business_id AND user_id = :user_id
ReviewsOfPair(tbl, business_id, user_id) ==
    {r \in DOMAIN tbl : tbl[r].business_id = business_id /\ tbl[r].user_id = user_id}

\* mutant: the CHECK has the upper limit only
StarsCheckUpperOnly(stars) == stars <= 5
\* CHECK (stars >= 0 AND stars <= 5)
StarsCheck(stars) == stars >= 0 /\ stars <= 5

\* mutant: an omitted review_text becomes the empty string
ReviewTextOrEmpty(content, default) ==
    IF Has(content, "review_text") THEN content["review_text"] ELSE ""
\* content.get('review_text', default)
ReviewText(content, default) ==
    IF Has(content, "review_text") THEN content["review_text"] ELSE default

\* the JSON object a review is returned as; business is the id its link ends in
ReviewObject(id, user_id, business_id, stars, review_text) ==
    [id |-> id, user_id |-> user_id, business |-> business_id, stars |-> stars,
     review_text |-> review_text]

\* post_review would reach its INSERT and the INSERT would store a row
WouldInsertReview(content) ==
    /\ ~PostReviewMissing(content)
    /\ ~BusinessIsNone(businesses, content["business_id"])
    /\ ReviewsOfPair(reviews, content["business_id"], content["user_id"]) = {}
    /\ StarsCheck(content["stars"])

\* post_review up to its SELECT on businesses
post_review(c, content) ==
    /\ Accept(c, "post_review", 0, content)
    /\ WouldInsertReview(content) => nextReviewId <= MaxReviewId
    /\ IF PostReviewMissing(content)
         THEN Refuse(c, 400, ERROR_MISSING_ATTRIBUTES)
         ELSE IF BusinessIsNone(businesses, content["business_id"])
         THEN Return(c, 404, ERROR_BUSINESS_NOT_FOUND)
         ELSE Goto(c, "post_review_select")
    /\ UNCHANGED <<tables, pool, locals>>

\* post_review: its SELECT on reviews
post_review_select(c) ==
    /\ pc[c] = "post_review_select"
    /\ LET rows == ReviewsOfPair(reviews, req[c].content["business_id"],
                                 req[c].content["user_id"])
       IN IF rows = {}
            THEN Goto(c, "post_review_insert")
            ELSE IF Cardinality(rows) = 1
            THEN Return(c, 409, ERROR_REVIEW_CONFLICT)
            ELSE \* one_or_none() raises MultipleResultsFound
                 Return(c, 500, INTERNAL_SERVER_ERROR)
    /\ UNCHANGED <<tables, pool, req, locals>>

\* the row INSERT INTO reviews(...) VALUES (...) stores
ReviewRow(content) ==
    [user_id |-> content["user_id"], business_id |-> content["business_id"],
     stars |-> content["stars"], review_text |-> ReviewText(content, "")]

\* post_review: its INSERT, commit and return
post_review_insert(c) ==
    /\ pc[c] = "post_review_insert"
    /\ LET content == req[c].content
       IN IF ~StarsCheck(content["stars"])
            THEN \* the INSERT raises: nothing is committed
                 /\ Return(c, 500, INTERNAL_SERVER_ERROR)
                 /\ UNCHANGED <<reviews, nextReviewId>>
            ELSE /\ nextReviewId <= MaxReviewId
                 /\ reviews' = With(reviews, nextReviewId, ReviewRow(content))
                 /\ nextReviewId' = nextReviewId + 1
                 /\ Return(c, 201,
                           ReviewObject(nextReviewId, content["user_id"],
                                        content["business_id"], content["stars"],
                                        ReviewText(content, "")))
    /\ UNCHANGED <<businesses, nextBusinessId, pool, req, locals>>

get_review(c, review_id) ==
    /\ Accept(c, "get_review", review_id, NoContent)
    /\ IF review_id \notin DOMAIN reviews
         THEN Return(c, 404, ERROR_REVIEW_NOT_FOUND)
         ELSE LET review == reviews[review_id]
              IN Return(c, 200,
                        ReviewObject(review_id, review.user_id, review.business_id,
                                     review.stars, review.review_text))
    /\ UNCHANGED <<tables, pool, locals>>

\* put_review up to its SELECT
put_review(c, review_id, content) ==
    /\ Accept(c, "put_review", review_id, content)
    /\ IF ~Has(content, "stars")
         THEN /\ Refuse(c, 400, ERROR_MISSING_ATTRIBUTES)
              /\ UNCHANGED row_dict
         ELSE IF review_id \notin DOMAIN reviews
         THEN /\ Return(c, 404, ERROR_REVIEW_NOT_FOUND)
              /\ UNCHANGED row_dict
         ELSE /\ row_dict' = [row_dict EXCEPT ![c] =
                     [id |-> review_id,
                      user_id |-> reviews[review_id].user_id,
                      business_id |-> reviews[review_id].business_id,
                      stars |-> reviews[review_id].stars,
                      review_text |-> reviews[review_id].review_text]]
              /\ Goto(c, "put_review_update")
    /\ UNCHANGED <<tables, pool, row1>>

\* mutant: the UPDATE without its WHERE clause
UpdateReviewEveryRow(tbl, review_id, stars, review_text) ==
    [i \in DOMAIN tbl |->
        [tbl[i] EXCEPT !.stars = stars, !.review_text = review_text]]
\* UPDATE reviews SET stars = :stars, review_text = :review_text WHERE id = :review_id
UpdateReview(tbl, review_id, stars, review_text) ==
    IF review_id \in DOMAIN tbl
      THEN With(tbl, review_id,
                [tbl[review_id] EXCEPT !.stars = stars, !.review_text = review_text])
      ELSE tbl

\* put_review: its UPDATE, commit and return
put_review_update(c) ==
    /\ pc[c] = "put_review_update"
    /\ LET content == req[c].content
           review_text == ReviewText(content, row_dict[c].review_text)
       IN IF ~StarsCheck(content["stars"])
            THEN \* the UPDATE raises: nothing is committed
                 /\ Return(c, 500, INTERNAL_SERVER_ERROR)
                 /\ UNCHANGED reviews
            ELSE /\ reviews' = UpdateReview(reviews, req[c].id, content["stars"],
                                            review_text)
                 /\ Return(c, 200,
                           ReviewObject(row_dict[c].id, row_dict[c].user_id,
                                        row_dict[c].business_id, content["stars"],
                                        review_text))
    /\ row_dict' = [row_dict EXCEPT ![c] = NoRow]
    /\ UNCHANGED <<businesses, nextBusinessId, nextReviewId, pool, req, row1>>

delete_review(c, review_id) ==
    /\ Accept(c, "delete_review", review_id, NoContent)
    /\ reviews' = Without(reviews, {review_id})
    /\ IF review_id \in DOMAIN reviews
         THEN Return(c, 204, NoContent)
         ELSE Return(c, 404, ERROR_REVIEW_NOT_FOUND)
    /\ UNCHANGED <<businesses, nextBusinessId, nextReviewId, pool, locals>>

\* ------------------------------------------------------------ specification
\* one step of one handler, the requests' inputs drawn from the given sets
Step(businessBodies, listArgs, reviewBodies, putReviewBodies) ==
    \/ \E c \in Conns, content \in businessBodies : post_business(c, content)
    \/ \E c \in Conns, id \in BusinessIds : get_business(c, id)
    \/ \E c \in Conns, args \in listArgs : get_businesses(c, args)
    \/ \E c \in Conns, id \in BusinessIds, content \in businessBodies :
          put_business(c, id, content)
    \/ \E c \in Conns : put_business_update(c)
    \/ \E c \in Conns, id \in BusinessIds : delete_business(c, id)
    \/ \E c \in Conns : delete_business_stmt2(c)
    \/ \E c \in Conns, content \in reviewBodies : post_review(c, content)
    \/ \E c \in Conns : post_review_select(c)
    \/ \E c \in Conns : post_review_insert(c)
    \/ \E c \in Conns, id \in ReviewIds : get_review(c, id)
    \/ \E c \in Conns, id \in ReviewIds, content \in putReviewBodies :
          put_review(c, id, content)
    \/ \E c \in Conns : put_review_update(c)
    \/ \E c \in Conns, id \in ReviewIds : delete_review(c, id)

\* the state once create_table has run on an empty database, with a pool of
\* the connections conns
InitWith(conns) ==
    /\ businesses = NoContent
    /\ reviews = NoContent
    /\ nextBusinessId = 1
    /\ nextReviewId = 1
    /\ pool = conns
    /\ pc = [c \in Conns |-> "idle"]
    /\ req = [c \in Conns |-> NoRequest]
    /\ resp = [c \in Conns |-> NoResponse]
    /\ row_dict = [c \in Conns |-> NoRow]
    /\ row1 = [c \in Conns |-> {}]
    /\ checkedout = {}
    /\ walk = NoWalk

\* small input sets, for the side a specification does not vary
OneBusinessBody == {[k \in BusinessKeys |-> Token(k, 1)]}
NoListArgs == {NoContent}
FewReviewBodies ==
    {[user_id |-> 1, business_id |-> b, stars |-> 5] : b \in BusinessIds}
FewPutReviewBodies == {[stars |-> 5]}

\* requests served one at a time (a pool of one connection); every body and
\* query string on /businesses, few bodies on /reviews
Init == InitWith({1})
Next == Step(BusinessBodies, ListArgs, FewReviewBodies, FewPutReviewBodies)
Spec == Init /\ [][Next]_vars

\* requests served one at a time; one body on /businesses, two users' bodies
\* on POST /reviews
NextReviews ==
    Step(OneBusinessBody, NoListArgs, ReviewBodiesOf(Users, {5, 6}),
         FewPutReviewBodies)
SpecReviews == Init /\ [][NextReviews]_vars

\* requests served one at a time; one body on /businesses, one user's bodies
\* on POST /reviews, every body on PUT /reviews/<id>
NextUpdates ==
    Step(OneBusinessBody, NoListArgs, ReviewBodiesOf({1}, Stars), PutReviewBodies)
SpecUpdates == Init /\ [][NextUpdates]_vars

\* requests served one at a time; two bodies on /businesses, and bodies on
\* PUT /reviews/<id> that change the stars, give a text, or name another
\* user and business
TwoBusinessBodies == {[k \in BusinessKeys |-> Token(k, v)] : v \in Variants}
FramePutReviewBodies ==
    {[stars |-> 0], [stars |-> 0, review_text |-> "a"],
     [stars |-> 0, user_id |-> 2, business_id |-> 2]}
NextFrame ==
    Step(TwoBusinessBodies, NoListArgs, FewReviewBodies, FramePutReviewBodies)
SpecFrame == Init /\ [][NextFrame]_vars

\* requests on /businesses served one at a time, with every query string on
\* GET /businesses; a client that has started a walk requests nothing but the
\* next link until a page comes back empty, and no other request is served
\* meanwhile
Walking == walk # NoWalk /\ ~walk.done
FollowNext == \E c \in Conns : follow_next(c)
NextWalk ==
    \/ FollowNext
    \/ \E c \in Conns, content \in TwoBusinessBodies :
          ~Walking /\ post_business(c, content)
    \/ \E c \in Conns, id \in BusinessIds : ~Walking /\ get_business(c, id)
    \/ \E c \in Conns, args \in ListArgs : ~Walking /\ get_businesses(c, args)
    \/ \E c \in Conns, id \in BusinessIds, content \in TwoBusinessBodies :
          ~Walking /\ put_business(c, id, content)
    \/ \E c \in Conns : ~Walking /\ put_business_update(c)
    \/ \E c \in Conns, id \in BusinessIds : ~Walking /\ delete_business(c, id)
    \/ \E c \in Conns : ~Walking /\ delete_business_stmt2(c)
SpecWalk == Init /\ [][NextWalk]_vars /\ WF_vars(FollowNext)

\* requests served concurrently, one per connection of the pool
ConcPutReviewBodies == {[stars |-> 5], [stars |-> 5, review_text |-> "a"]}
InitConc == InitWith(Conns)
NextConc == Step(OneBusinessBody, NoListArgs, FewReviewBodies, ConcPutReviewBodies)
SpecConc == InitConc /\ [][NextConc]_vars

\* ================================================================ properties
\* the handler on connection c returns in this step
Returns(c) ==
    /\ pc'[c] = "idle"
    /\ <<pc[c], req[c], resp[c]>> # <<pc'[c], req'[c], resp'[c]>>
\* connection c's last request was op and was answered status
Answered(c, op, status) ==
    pc[c] = "idle" /\ req[c].op = op /\ resp[c].status = status
\* table tbl restricted to the rows ids
Only(tbl, ids) == [i \in ids |-> tbl[i]]

\* C1: no two stored reviews have the same (user_id, business_id), and of two
\* Create(Review) calls for one pair that are both answered, one is not
\* answered 201 -- under any interleaving of the statements of concurrent
\* requests.
C1_UniquePair ==
    /\ \A r1, r2 \in DOMAIN reviews :
          (reviews[r1].user_id = reviews[r2].user_id
             /\ reviews[r1].business_id = reviews[r2].business_id) => r1 = r2
    /\ \A c1, c2 \in Conns :
          (/\ c1 # c2
           /\ Answered(c1, "post_review", 201)
           /\ Answered(c2, "post_review", 201)
           /\ req[c1].content["user_id"] = req[c2].content["user_id"]
           /\ req[c1].content["business_id"] = req[c2].content["business_id"])
          => \E r \in {resp[c1].body.id, resp[c2].body.id} : r \notin DOMAIN reviews

\* C2: when Delete(business_id) is answered 204, exactly the reviews of that
\* business and the business row are removed, every other review and business
\* is untouched, and a Get of a review the delete removed, issued next, is
\* answered 404 ReviewNotFound (requests served one at a time).
C2_DeleteCascades ==
    [][\A c \in Conns :
          /\ (Returns(c) /\ req'[c].op = "delete_business" /\ resp'[c].status = 204)
               => /\ \A r \in DOMAIN reviews' : reviews'[r].business_id # req'[c].id
                  /\ reviews' =
                       Only(reviews, {r \in DOMAIN reviews :
                                         reviews[r].business_id # req'[c].id})
                  /\ businesses' = Only(businesses, DOMAIN businesses \ {req'[c].id})
          /\ (Answered(c, "delete_business", 204) /\ Returns(c)
                /\ req'[c].op = "get_review" /\ req'[c].id \in row1[c])
               => resp'[c] = Response(404, ERROR_REVIEW_NOT_FOUND)]_vars
\* a delete answered 204 that removed a review and left another review and
\* another business in place
C2_Witness ==
    \E c \in Conns :
        /\ Answered(c, "delete_business", 204)
        /\ row1[c] # {}
        /\ reviews # NoContent
        /\ businesses # NoContent


\* C3 as claimed: Get, Update and Delete on a business id that is not stored
\* are answered 404 BusinessNotFound, whatever body Update is given.
C3_AlwaysNotFound ==
    [][\A c \in Conns :
          (/\ Returns(c)
           /\ req'[c].op \in {"get_business", "put_business", "delete_business"}
           /\ req'[c].id \notin DOMAIN businesses)
          => resp'[c] = Response(404, ERROR_BUSINESS_NOT_FOUND)]_vars
\* C3 as amended: Get and Delete on a business id that is not stored are
\* answered 404 BusinessNotFound; Update is answered 404 BusinessNotFound when
\* its body has exactly six keys and 400 MissingAttributes otherwise.
C3_NotFoundAfterLengthCheck ==
    [][\A c \in Conns :
          (/\ Returns(c)
           /\ req'[c].op \in {"get_business", "put_business", "delete_business"}
           /\ req'[c].id \notin DOMAIN businesses)
          => IF req'[c].op = "put_business" /\ Cardinality(DOMAIN req'[c].content) # 6
               THEN resp'[c] = Response(400, ERROR_MISSING_ATTRIBUTES)
               ELSE resp'[c] = Response(404, ERROR_BUSINESS_NOT_FOUND)]_vars
\* an Update of a business that is not stored, its six keys not the six
\* columns, answered 404, while another business is stored
C3_Witness ==
    \E c \in Conns :
        /\ Answered(c, "put_business", 404)
        /\ DOMAIN req[c].content # BusinessKeys
        /\ req[c].id \notin DOMAIN businesses
        /\ businesses # NoContent

\* C4: Create(Business) with a body that lacks one of the six fields, or has a
\* field beyond the six, is answered 400 MissingAttributes and inserts no row.
C4_RejectsEveryOtherBody ==
    [][\A c \in Conns :
          (/\ Returns(c)
           /\ req'[c].op = "post_business"
           /\ DOMAIN req'[c].content # BusinessKeys)
          => /\ resp'[c] = Response(400, ERROR_MISSING_ATTRIBUTES)
             /\ UNCHANGED <<businesses, reviews>>]_vars

\* C5: a request answered 400 MissingAttributes, 404 BusinessNotFound,
\* 404 ReviewNotFound or 409 ReviewConflict leaves both tables as they were.
C5_ErrorsChangeNothing ==
    [][\A c \in Conns :
          (/\ Returns(c)
           /\ resp'[c] \in {Response(400, ERROR_MISSING_ATTRIBUTES),
                            Response(404, ERROR_BUSINESS_NOT_FOUND),
                            Response(404, ERROR_REVIEW_NOT_FOUND),
                            Response(409, ERROR_REVIEW_CONFLICT)})
          => UNCHANGED <<businesses, reviews>>]_vars

\* C6: Create(Business) with exactly the six fields is answered 201 with an id
\* no stored business has, and adds exactly the row of that id; a Get of the
\* returned id issued next is answered 200 with the six values of the body.
C6_CreateThenGet ==
    [][\A c \in Conns :
          /\ (/\ Returns(c)
              /\ req'[c].op = "post_business"
              /\ DOMAIN req'[c].content = BusinessKeys)
             => /\ resp'[c].status = 201
                /\ resp'[c].body.id \notin DOMAIN businesses
                /\ DOMAIN businesses' = DOMAIN businesses \cup {resp'[c].body.id}
                /\ \A i \in DOMAIN businesses : businesses'[i] = businesses[i]
                /\ reviews' = reviews
          /\ (/\ Answered(c, "post_business", 201)
              /\ Returns(c)
              /\ req'[c].op = "get_business"
              /\ req'[c].id = resp[c].body.id)
             => /\ resp'[c].status = 200
                /\ resp'[c].body.id = resp[c].body.id
                /\ \A k \in BusinessKeys : resp'[c].body[k] = req[c].content[k]]_vars
\* a Get answered 200 with the row of the second business created
C6_Witness ==
    \E c \in Conns :
        /\ Answered(c, "get_business", 200)
        /\ resp[c].body.id = 2
        /\ resp[c].body.id = nextBusinessId - 1


\* the row a Create(Review) body asks to store
AskedReview(content) ==
    [user_id |-> content["user_id"], business_id |-> content["business_id"],
     stars |-> content["stars"],
     review_text |-> IF "review_text" \in DOMAIN content
                       THEN content["review_text"] ELSE ""]
\* reviews' is reviews and one more row, row
OneReviewInserted(row) ==
    \E r \in DOMAIN reviews' \ DOMAIN reviews :
        /\ DOMAIN reviews' = DOMAIN reviews \cup {r}
        /\ reviews'[r] = row
        /\ \A i \in DOMAIN reviews : reviews'[i] = reviews[i]
\* some stored review is by user_id on business_id
PairStored(user_id, business_id) ==
    \E r \in DOMAIN reviews :
        reviews[r].user_id = user_id /\ reviews[r].business_id = business_id

\* C7 as claimed: Create(Review) with user_id, business_id and stars present is
\* answered 404 BusinessNotFound when the business is not stored, 409
\* ReviewConflict when it is and the pair has a review, and otherwise 201,
\* inserting exactly one row whose review_text is the text given or "".
C7_CreateReviewOutcome ==
    [][\A c \in Conns :
          (/\ Returns(c)
           /\ req'[c].op = "post_review"
           /\ {"user_id", "business_id", "stars"} \subseteq DOMAIN req'[c].content)
          => LET content == req'[c].content
             IN IF content["business_id"] \notin DOMAIN businesses
                  THEN resp'[c] = Response(404, ERROR_BUSINESS_NOT_FOUND)
                  ELSE IF PairStored(content["user_id"], content["business_id"])
                  THEN resp'[c] = Response(409, ERROR_REVIEW_CONFLICT)
                  ELSE /\ resp'[c].status = 201
                       /\ OneReviewInserted(AskedReview(content))]_vars
\* C7 as amended: as claimed, but the last case is answered 201 and inserts the
\* row only when stars is within 0..5; with stars outside 0..5 it is answered
\* with a server error and inserts nothing.
C7_CreateReviewOutcomeInRange ==
    [][\A c \in Conns :
          (/\ Returns(c)
           /\ req'[c].op = "post_review"
           /\ {"user_id", "business_id", "stars"} \subseteq DOMAIN req'[c].content)
          => LET content == req'[c].content
             IN IF content["business_id"] \notin DOMAIN businesses
                  THEN resp'[c] = Response(404, ERROR_BUSINESS_NOT_FOUND)
                  ELSE IF PairStored(content["user_id"], content["business_id"])
                  THEN resp'[c] = Response(409, ERROR_REVIEW_CONFLICT)
                  ELSE IF content["stars"] \in 0..5
                  THEN /\ resp'[c].status = 201
                       /\ OneReviewInserted(AskedReview(content))
                  ELSE /\ resp'[c].status = 500
                       /\ reviews' = reviews]_vars
\* a second user's review of a business, created without review_text, answered
\* 201 and stored with the empty text
C7_Witness ==
    \E c \in Conns :
        /\ Answered(c, "post_review", 201)
        /\ "review_text" \notin DOMAIN req[c].content
        /\ resp[c].body.id \in DOMAIN reviews
        /\ reviews[resp[c].body.id].review_text = ""
        /\ \E r \in DOMAIN reviews :
              /\ reviews[r].business_id = req[c].content["business_id"]
              /\ reviews[r].user_id # req[c].content["user_id"]

\* C8 as claimed: Update(Review) of a stored review with stars present stores
\* the stars given, and the review_text given or, when omitted, the text that
\* was stored.
C8_UpdateReviewText ==
    [][\A c \in Conns :
          (/\ Returns(c)
           /\ req'[c].op = "put_review"
           /\ "stars" \in DOMAIN req'[c].content
           /\ req'[c].id \in DOMAIN reviews)
          => LET content == req'[c].content
                 id == req'[c].id
             IN /\ id \in DOMAIN reviews'
                /\ reviews'[id].stars = content["stars"]
                /\ reviews'[id].review_text =
                      IF "review_text" \in DOMAIN content
                        THEN content["review_text"]
                        ELSE reviews[id].review_text]_vars
\* C8 as amended: the same for bodies whose stars is within 0..5.
C8_UpdateReviewTextInRange ==
    [][\A c \in Conns :
          (/\ Returns(c)
           /\ req'[c].op = "put_review"
           /\ "stars" \in DOMAIN req'[c].content
           /\ req'[c].content["stars"] \in 0..5
           /\ req'[c].id \in DOMAIN reviews)
          => LET content == req'[c].content
                 id == req'[c].id
             IN /\ id \in DOMAIN reviews'
                /\ reviews'[id].stars = content["stars"]
                /\ reviews'[id].review_text =
                      IF "review_text" \in DOMAIN content
                        THEN content["review_text"]
                        ELSE reviews[id].review_text]_vars
\* an Update without review_text answered 200 on a review whose stored text is
\* not empty
C8_Witness ==
    \E c \in Conns :
        /\ Answered(c, "put_review", 200)
        /\ "review_text" \notin DOMAIN req[c].content
        /\ req[c].id \in DOMAIN reviews
        /\ reviews[req[c].id].review_text = "a"
        /\ reviews[req[c].id].stars = 0

\* C9: every stored review has stars within 0..5; Create(Review) and
\* Update(Review) with stars outside 0..5 are answered with an error and leave
\* both tables as they were.
C9_StarsInRange ==
    [][/\ \A r \in DOMAIN reviews' : reviews'[r].stars \in 0..5
       /\ \A c \in Conns :
             (/\ Returns(c)
              /\ req'[c].op \in {"post_review", "put_review"}
              /\ "stars" \in DOMAIN req'[c].content
              /\ req'[c].content["stars"] \notin 0..5)
             => /\ resp'[c].status >= 400
                /\ UNCHANGED <<businesses, reviews>>]_vars
\* an Update with stars 6 of a stored review, refused
C9_Witness ==
    \E c \in Conns :
        /\ pc[c] = "idle"
        /\ req[c].op = "put_review"
        /\ req[c].content = [stars |-> 6]
        /\ resp[c].status = 500
        /\ req[c].id \in DOMAIN reviews

\* C10: List(Business) with offset and limit given returns the businesses at
\* positions offset+1 .. offset+limit of the stored businesses in ascending id
\* order (fewer or none when the data ends earlier), and a next link of
\* offset+limit and the same limit.
C10_ListPage ==
    \A c \in Conns :
        (Answered(c, "get_businesses", 200)
           /\ DOMAIN req[c].content = {"offset", "limit"})
        => LET offset == req[c].content["offset"]
               limit == req[c].content["limit"]
               entries == resp[c].body.entries
               left == Cardinality(DOMAIN businesses) - offset
               count == IF left < 0 THEN 0 ELSE IF limit < left THEN limit ELSE left
           IN /\ Len(entries) = count
              /\ \A i \in 1..count :
                    /\ entries[i].id \in DOMAIN businesses
                    /\ Cardinality({j \in DOMAIN businesses : j < entries[i].id})
                         = offset + i - 1
                    /\ \A k \in BusinessKeys :
                          entries[i][k] = businesses[entries[i].id][k]
              /\ resp[c].body.next = [offset |-> offset + limit, limit |-> limit]
\* a page of one entry that starts past the first stored business
C10_Witness ==
    \E c \in Conns :
        /\ Answered(c, "get_businesses", 200)
        /\ DOMAIN req[c].content = {"offset", "limit"}
        /\ req[c].content["offset"] = 1
        /\ req[c].content["limit"] = 1
        /\ Len(resp[c].body.entries) = 1
        /\ resp[c].body.entries[1].id = 2

\* ---------------------------------------------------------------------- C11
\* the requests that are inside a handler's `with` block
InHandler == {c \in Conns : pc[c] # "idle"}

\* C11: the connections checked out of the pool are exactly those of the
\* requests that are inside a handler, so there are as many of the one as of
\* the other and none when no request is in flight: every handler, whatever
\* it answered (success, 400, 404, 409 or a failed statement), has given its
\* connection back when it returns.
C11_ConnectionsReleased ==
    /\ checkedout = InHandler
    /\ Cardinality(checkedout) = Cardinality(InHandler)
    /\ (\A c \in Conns : pc[c] = "idle") => checkedout = {}
\* a Create(Review) whose INSERT the store refused has returned and nothing is
\* checked out
C11_Witness ==
    \E c \in Conns :
        /\ Answered(c, "post_review", 500)
        /\ checkedout = {}

C13_NoOrphanReview ==
    \A r \in DOMAIN reviews : reviews[r].business_id \in DOMAIN businesses

\* ---------------------------------------------------------------------- C14
\* C14: when Update(Business) is answered 200, a business row with the id of
\* the request is stored once the update is committed, and its six columns
\* hold the values the response returns -- also when a Delete(Business) of the
\* same id runs between the handler's SELECT and its UPDATE.
C14_UpdatedBusinessStored ==
    [][\A c \in Conns :
          (/\ Returns(c)
           /\ req'[c].op = "put_business"
           /\ resp'[c].status = 200)
          => /\ req'[c].id \in DOMAIN businesses'
             /\ resp'[c].body.id = req'[c].id
             /\ \A k \in BusinessKeys :
                   businesses'[req'[c].id][k] = resp'[c].body[k]]_vars

\* ---------------------------------------------------------------------- C15
\* C15: an Update(Review) that omits review_text leaves the stored review_text
\* of its review as it is -- also when another Update(Review) that supplies a
\* new text commits between the first handler's SELECT and its UPDATE (no
\* update of the text is lost).
C15_OmittedTextUnchanged ==
    [][\A c \in Conns :
          (/\ Returns(c)
           /\ req'[c].op = "put_review"
           /\ "review_text" \notin DOMAIN req'[c].content
           /\ req'[c].id \in DOMAIN reviews)
          => /\ req'[c].id \in DOMAIN reviews'
             /\ reviews'[req'[c].id].review_text
                  = reviews[req'[c].id].review_text]_vars

\* ---------------------------------------------------------------------- C16
\* C16: Update(Review) changes nothing but the stars and review_text of the
\* review with the given id: that review's user_id and business_id, every
\* other review, the set of review ids and every business stay as they were,
\* whatever the body names. Update(Business) changes nothing but the six
\* columns of the business with the given id: the set of business ids, every
\* other business and every review stay as they were. So no Update gives two
\* reviews the same pair or moves a review to another business.
C16_UpdateFrame ==
    [][\A c \in Conns :
          /\ (Returns(c) /\ req'[c].op = "put_review")
             => /\ DOMAIN reviews' = DOMAIN reviews
                /\ \A r \in DOMAIN reviews :
                      IF r = req'[c].id
                        THEN /\ reviews'[r].user_id = reviews[r].user_id
                             /\ reviews'[r].business_id = reviews[r].business_id
                        ELSE reviews'[r] = reviews[r]
                /\ businesses' = businesses
          /\ (Returns(c) /\ req'[c].op = "put_business")
             => /\ DOMAIN businesses' = DOMAIN businesses
                /\ \A b \in DOMAIN businesses \ {req'[c].id} :
                      businesses'[b] = businesses[b]
                /\ reviews' = reviews]_vars
\* an Update(Review) whose body names another user and business was answered
\* 200 and changed the stars of its review, while a second review is stored
C16_Witness ==
    \E c \in Conns :
        /\ Answered(c, "put_review", 200)
        /\ "business_id" \in DOMAIN req[c].content
        /\ req[c].id \in DOMAIN reviews
        /\ reviews[req[c].id].business_id # req[c].content["business_id"]
        /\ reviews[req[c].id].stars = 0
        /\ \E r \in DOMAIN reviews : reviews[r].stars = 5

\* ---------------------------------------------------------------------- C17
\* the number of stored businesses
Stored == Cardinality(DOMAIN businesses)
\* C17 (pages): in a walk that started at offset 0 with a limit of at least 1
\* and followed the next links, the ids listed so far are the first stored
\* ids in ascending order, none left out and none twice; the walk's last page
\* is empty exactly when its offset is at least the number of stored
\* businesses, it is then the first empty page, every stored business has been
\* listed, and it took at most one request per stored business and one more.
\* Any page requested with a limit of at least 1 is empty only when no
\* business lies at or beyond its offset.
C17_WalkPages ==
    /\ walk # NoWalk
       => /\ Len(walk.seen) <= Stored
          /\ \A i \in 1..Len(walk.seen) :
                /\ walk.seen[i] \in DOMAIN businesses
                /\ Cardinality({j \in DOMAIN businesses : j < walk.seen[i]}) = i - 1
          /\ walk.done <=> walk.offset >= Stored
          /\ walk.done => Len(walk.seen) = Stored
          /\ Len(walk.seen) = IF walk.next.offset < Stored
                                 THEN walk.next.offset ELSE Stored
          /\ walk.requests <= Stored + 1
    /\ \A c \in Conns :
          (/\ Answered(c, "get_businesses", 200)
           /\ resp[c].body.next.limit >= 1)
          => (resp[c].body.entries = <<>>
                <=> resp[c].body.next.offset - resp[c].body.next.limit >= Stored)
\* C17: the pages of a walk are as C17_WalkPages says, and a client that
\* keeps following the next links while no other request is served reaches
\* the first empty page after finitely many requests.
C17_NextLinksReachTheEnd ==
    /\ []C17_WalkPages
    /\ (walk # NoWalk) ~> (walk # NoWalk /\ walk.done)
\* a walk of three requests with limit 1 has listed both stored businesses
\* and its third page was empty
C17_Witness ==
    /\ walk # NoWalk
    /\ walk.done
    /\ walk.requests = 3
    /\ walk.seen = <<1, 2>>

====
